---- MODULE Spec2Model ----
(***************************************************************************)
(* Model of vispy/shaders/function.py: Function, BoundFunction,            *)
(* FunctionChain, FunctionTemplate and FragmentFunction.                   *)
(*                                                                         *)
(* GLSL text is modelled by its tokens: a declaration line                 *)
(* "qualifier type name;" is the tuple <<qualifier, type, name>>, a header *)
(* "rtype name(args) {" is a record, a call line is a record.              *)
(***************************************************************************)
EXTENDS Integers, Sequences, FiniteSets, TLC

VARIABLES
    fdeps,      \* fdeps[i] = Function i's _deps list (functions are numbered in creation order)
    chains,     \* FunctionChain objects: chain id -> fields
    pool,       \* Function objects available as parents of BoundFunction
    bound,      \* outcome of the last Function.bind / BoundFunction construction
    tmpl,       \* the FunctionTemplate object
    tbind,      \* outcome of the last FunctionTemplate.bind
    frag,       \* outcome of the last FragmentFunction construction
    fbind,      \* outcome of the last FragmentFunction.bind
    fvars,      \* Function objects with declared variables and _program_values
    setres,     \* outcome of the last Function.__setitem__
    cleaned     \* a code block on its way through Function.clean_code

vars == <<fdeps, chains, pool, bound, tmpl, tbind, frag, fbind, fvars, setres, cleaned>>

None == "None"

\* Each specification below exercises one part of function.py; the objects of
\* the other parts are then absent.
DepsIdle == fdeps = <<>>
ChainsIdle == chains = <<>>
Absent == [status |-> "none"]
PoolIdle == pool = <<>> /\ bound = Absent
TmplIdle == tmpl = Absent /\ tbind = Absent
FragIdle == frag = Absent /\ fbind = Absent
VarsIdle == fvars = <<>> /\ setres = Absent
CleanIdle == cleaned = Absent

-----------------------------------------------------------------------------
(* Bounds of the model *)

MaxFuncs == 4       \* Functions in a dependency graph
MaxDeps == 2        \* length of a deps list given to Function.__init__
MaxChains == 2      \* FunctionChain objects
MaxLen == 2         \* functions in one FunctionChain
MaxLinks == 1       \* pairs in a FragmentFunction's link_vars
MaxVarFuncs == 2    \* Function objects whose variables are assigned
MaxLines == 3       \* lines of a code block given to clean_code
MaxIndent == 2      \* leading spaces of a line of such a block
MaxPool == 1        \* Function objects available to bind

-----------------------------------------------------------------------------
(* Generic helpers *)

Range(s) == {s[i] : i \in 1..Len(s)}

SeqsUpTo(S, n) == UNION {[1..k -> S] : k \in 0..n}

-----------------------------------------------------------------------------
(* Function.all_deps  (function.py 164-174) *)

\* The variant with deps.append(fn) (the commented-out line 172) in place of
\* deps.extend(fn.all_deps()).
RECURSIVE all_deps_direct_only(_, _)
all_deps_direct_only(d, f) == d[f] \o <<f>>

\* The variant that appends self before walking the dependencies.
RECURSIVE all_deps_self_first(_, _)
all_deps_self_first(d, f) ==
    LET ext[k \in 0..Len(d[f])] ==
            IF k = 0 THEN <<f>> ELSE ext[k-1] \o all_deps_self_first(d, d[f][k])
    IN  ext[Len(d[f])]

\* deps = []; for fn in self._deps: deps.extend(fn.all_deps()); deps.append(self)
RECURSIVE all_deps(_, _)
all_deps(d, f) ==
    LET ext[k \in 0..Len(d[f])] ==
            IF k = 0 THEN <<>> ELSE ext[k-1] \o all_deps(d, d[f][k])
    IN  ext[Len(d[f])] \o <<f>>

\* Function.__init__(code, deps=deplist): self._deps = deps[:]
\* Dependencies are existing Function objects, so the graph is acyclic.
NewFunction(deplist) ==
    /\ Len(fdeps) < MaxFuncs
    /\ fdeps' = Append(fdeps, deplist)
    /\ UNCHANGED <<chains, pool, bound, tmpl, tbind, frag, fbind, fvars, setres, cleaned>>

\* The CompositeProgram keeps the first occurrence of each function.
RECURSIVE Dedup(_)
Dedup(s) ==
    IF s = <<>> THEN <<>>
    ELSE LET front == Dedup(SubSeq(s, 1, Len(s) - 1))
         IN  IF s[Len(s)] \in Range(front) THEN front ELSE Append(front, s[Len(s)])

\* The functions reachable from f along _deps.
RECURSIVE Reach(_, _)
Reach(d, f) == {f} \cup UNION {Reach(d, g) : g \in Range(d[f])}

DepsInit == fdeps = <<>>

InitDeps == DepsInit /\ ChainsIdle /\ PoolIdle /\ TmplIdle /\ FragIdle /\ VarsIdle /\ CleanIdle

NextDeps == \E deplist \in SeqsUpTo(1..Len(fdeps), MaxDeps) : NewFunction(deplist)

SpecDeps == InitDeps /\ [][NextDeps]_vars

\* C1: for every root of an acyclic dependency graph, all_deps() de-duplicated
\* by first occurrence holds every function reachable from the root exactly
\* once, and every dependency of a function stands before that function.
C1_DedupTopological ==
    \A r \in 1..Len(fdeps) :
        LET s == Dedup(all_deps(fdeps, r))
        IN  /\ Range(s) = Reach(fdeps, r)
            /\ \A i, j \in 1..Len(s) : s[i] = s[j] => i = j
            /\ \A i \in 1..Len(s) : \A d \in Range(fdeps[s[i]]) :
                    \E j \in 1..(i-1) : s[j] = d

\* A diamond: a root with two dependencies that share a dependency.
C1_Witness ==
    \E r, a, b, c \in 1..Len(fdeps) :
        /\ a # b
        /\ fdeps[r] = <<a, b>>
        /\ c \in Range(fdeps[a]) /\ c \in Range(fdeps[b])
        /\ Len(all_deps(fdeps, r)) > Len(Dedup(all_deps(fdeps, r)))

\* C2: all_deps() of f ends in f; every direct dependency and all of its
\* transitive dependencies occur before that last position; the subtrees of
\* the direct dependencies follow one another in the order of the deps list.
C2_PostOrder ==
    LET ad == [g \in 1..Len(fdeps) |-> all_deps(fdeps, g)]
        rc == [g \in 1..Len(fdeps) |-> Reach(fdeps, g)]
    IN  \A f \in 1..Len(fdeps) :
            LET s == ad[f]
                n == Len(fdeps[f])
                \* off[k]: summed lengths of all_deps() of the first k deps
                off[k \in 0..n] ==
                    IF k = 0 THEN 0 ELSE off[k-1] + Len(ad[fdeps[f][k]])
            IN  /\ Len(s) >= 1 /\ s[Len(s)] = f
                /\ \A d \in Range(fdeps[f]) : \A g \in rc[d] :
                        \E i \in 1..(Len(s) - 1) : s[i] = g
                /\ Len(s) = off[n] + 1
                /\ \A k \in 1..n :
                        SubSeq(s, off[k-1] + 1, off[k]) = ad[fdeps[f][k]]

\* A function with two direct dependencies, one of which has a dependency.
C2_Witness ==
    \E f \in 1..Len(fdeps) :
        /\ Len(fdeps[f]) = 2
        /\ fdeps[f][1] # fdeps[f][2]
        /\ \E d \in Range(fdeps[f]) : fdeps[d] # <<>>

-----------------------------------------------------------------------------
(* Strings as Python objects.  A str has its text and an identity; the only  *)
(* identity test in function.py is against the literal 'void' (line 285).    *)
(* A literal of function.py is the interned object; the text of a regex      *)
(* match is a new object; a str handed in by a caller can be either.         *)

Str(text, interned) == [text |-> text, interned |-> interned]
Lit(text) == Str(text, TRUE)
Fresh(text) == Str(text, FALSE)

-----------------------------------------------------------------------------
(* Plain Function objects used as chain elements and bind parents:           *)
(* Function(code) with the signature parsed from the code (function.py       *)
(* 96-98): name, args = [(type, name), ...], rtype.                          *)

Signature(name, args, rtype) == [name |-> name, args |-> args, rtype |-> rtype]

\* The (name, args, rtype) that parsing.parse_function_signature reads from
\* the header line "rtype name(type1 arg1, ...) {" of a code block: the texts
\* of the groups of a regular-expression match, each a new str object.
parse_function_signature(header) ==
    Signature(header.name, header.args, Fresh(header.rtype))

\* void f1() {...} ; void f2() {...} ; vec4 f3(vec4 pos) {...}
Lib == << Signature("f1", <<>>, Fresh("void")),
          Signature("f2", <<>>, Fresh("void")),
          Signature("f3", << <<"vec4", "pos">> >>, Fresh("vec4")) >>

-----------------------------------------------------------------------------
(* FunctionChain  (function.py 293-396) *)

ChainIds == 1..MaxChains

\* An element of a chain: a plain Function of Lib or another FunctionChain.
Fn(i) == <<"f", i>>
Ch(c) == <<"c", c>>

\* name: the chain's name; code: self._code, Absent while it is None;
\* returned: what the last read of the code property gave, with the chain's
\* funcs at that read
NoChain == [made |-> FALSE, funcs |-> <<>>, deps |-> <<>>, rtype |-> None, args |-> None,
            name |-> None, code |-> Absent, returned |-> Absent, funcs_at_read |-> <<>>]

\* The functions that may be put into chain c: dependency graphs are acyclic,
\* so a chain holds plain Functions and chains constructed before it.
Elems(c) == {Fn(i) : i \in 1..Len(Lib)} \cup {Ch(j) : j \in 1..(c-1)}

\* fn.rtype / fn.args as they are now
RtypeOf(ch, e) == IF e[1] = "f" THEN Lib[e[2]].rtype ELSE ch[e[2]].rtype
ArgsOf(ch, e) == IF e[1] = "f" THEN Lib[e[2]].args ELSE ch[e[2]].args

\* FunctionChain._update_signature (347-355), on the chain with fields r
update_signature(ch, r) ==
    IF Len(r.funcs) > 0
    THEN [r EXCEPT !.rtype = RtypeOf(ch, r.funcs[Len(r.funcs)]),
                   !.args = ArgsOf(ch, r.funcs[1])]
    ELSE [r EXCEPT !.rtype = Lit("void"), !.args = <<>>]

\* list.insert(index, x)
ListInsert(l, index, x) ==
    LET i0 == IF index < 0 THEN index + Len(l) ELSE index
        i == IF i0 < 0 THEN 0 ELSE IF i0 > Len(l) THEN Len(l) ELSE i0
    IN  SubSeq(l, 1, i) \o <<x>> \o SubSeq(l, i + 1, Len(l))

\* FunctionChain.__init__(name, funcs) (339-345)
NewChain(c, funcs) ==
    /\ ~chains[c].made
    /\ \A j \in 1..(c-1) : chains[j].made
    /\ \A e \in Range(funcs) : e[1] = "c" => chains[e[2]].made
    /\ chains' = [chains EXCEPT ![c] =
            update_signature(chains, [NoChain EXCEPT !.made = TRUE,
                                                     !.name = "my_func_chain_" \o ToString(c),
                                                     !.funcs = funcs,
                                                     !.deps = funcs])]
    /\ UNCHANGED <<fdeps, pool, bound, tmpl, tbind, frag, fbind, fvars, setres, cleaned>>

\* FunctionChain.append(function) (367-372)
append(c, function) ==
    /\ chains[c].made
    /\ Len(chains[c].funcs) < MaxLen
    /\ function[1] = "c" => chains[function[2]].made
    /\ chains' = [chains EXCEPT ![c] =
            update_signature(chains, [chains[c] EXCEPT
                !.funcs = Append(chains[c].funcs, function),
                !.deps = Append(chains[c].deps, function)])]
    /\ UNCHANGED <<fdeps, pool, bound, tmpl, tbind, frag, fbind, fvars, setres, cleaned>>

\* FunctionChain.insert(index, function) (374-379)
insert(c, index, function) ==
    /\ chains[c].made
    /\ Len(chains[c].funcs) < MaxLen
    /\ function[1] = "c" => chains[function[2]].made
    /\ chains' = [chains EXCEPT ![c] =
            update_signature(chains, [chains[c] EXCEPT
                !.funcs = ListInsert(chains[c].funcs, index, function),
                !.deps = ListInsert(chains[c].deps, index, function)])]
    /\ UNCHANGED <<fdeps, pool, bound, tmpl, tbind, frag, fbind, fvars, setres, cleaned>>

\* fn.name as it is now
NameOf(ch, e) == IF e[1] = "f" THEN Lib[e[2]].name ELSE ch[e[2]].name

Reverse(l) == [i \in 1..Len(l) |-> l[Len(l) + 1 - i]]

\* FunctionChain.generate_function_code (381-396) on the chain with fields r:
\* the header line, then either one "name();" line per function (flat) or
\* "return " followed by "name(" per function from last to first, the first
\* argument's name and the closing parentheses (nested)
chain_generate_function_code(ch, r) ==
    LET header == [rtype |-> r.rtype.text, name |-> r.name, args |-> r.args]
    IN  IF r.rtype.text = "void"
        THEN [status |-> "ok", header |-> header, kind |-> "flat",
              calls |-> [i \in 1..Len(r.funcs) |-> NameOf(ch, r.funcs[i])]]
        ELSE IF Len(r.args) = 0
        THEN \* self.args[0] raises (393)
             [status |-> "IndexError"]
        ELSE [status |-> "ok", header |-> header, kind |-> "nested",
              calls |-> [i \in 1..Len(r.funcs) |->
                            NameOf(ch, r.funcs[Len(r.funcs) + 1 - i])],
              arg |-> r.args[1][2], closes |-> Len(r.funcs)]

\* FunctionChain.code (357-365): the chain with fields r after a read of the
\* property; set_code (96-98) keeps the text and re-parses the signature
chain_code(ch, r) ==
    IF r.code.status = "none"
    THEN LET code == chain_generate_function_code(ch, r)
         IN  IF code.status # "ok"
             THEN [r EXCEPT !.returned = code, !.funcs_at_read = r.funcs]
             ELSE LET sig == parse_function_signature(code.header)
                  IN  [r EXCEPT !.code = code, !.name = sig.name, !.args = sig.args,
                                !.rtype = sig.rtype,
                                !.returned = code, !.funcs_at_read = r.funcs]
    ELSE [r EXCEPT !.returned = r.code, !.funcs_at_read = r.funcs]

\* a read of chain c's code property
ReadCode(c) ==
    /\ chains[c].made
    /\ chains' = [chains EXCEPT ![c] = chain_code(chains, chains[c])]
    /\ UNCHANGED <<fdeps, pool, bound, tmpl, tbind, frag, fbind, fvars, setres, cleaned>>

ChainsInit == chains = [c \in ChainIds |-> NoChain]

InitChains == ChainsInit /\ DepsIdle /\ PoolIdle /\ TmplIdle /\ FragIdle /\ VarsIdle /\ CleanIdle

NextChains ==
    \E c \in ChainIds :
        \/ \E funcs \in SeqsUpTo(Elems(c), MaxLen) : NewChain(c, funcs)
        \/ \E function \in Elems(c) : append(c, function)
        \/ \E function \in Elems(c), index \in (0 - MaxLen)..(MaxLen + 1) :
                insert(c, index, function)
        \/ ReadCode(c)

SpecChains == InitChains /\ [][NextChains]_vars

\* C3: every constructed chain has deps equal to funcs, rtype equal to the
\* current rtype of its last element ("void" when empty) and args equal to
\* the current args of its first element (empty when empty).
C3_ChainSignature ==
    \A c \in ChainIds : chains[c].made =>
        LET r == chains[c]
        IN  /\ r.deps = r.funcs
            /\ IF Len(r.funcs) = 0
               THEN r.rtype.text = "void" /\ r.args = <<>>
               ELSE /\ r.rtype.text = RtypeOf(chains, r.funcs[Len(r.funcs)]).text
                    /\ r.args = ArgsOf(chains, r.funcs[1])

\* C12: whatever appends, inserts and reads came before, the text a read of
\* code returns calls exactly the functions in the chain at that read, in
\* chain order: one call per function in order for a void chain, nested with
\* the first function innermost otherwise.
C12_CodeReflectsChain ==
    \A c \in ChainIds : (chains[c].made /\ chains[c].returned.status = "ok") =>
        LET r == chains[c]
            names == [i \in 1..Len(r.funcs_at_read) |-> NameOf(chains, r.funcs_at_read[i])]
        IN  IF r.returned.kind = "flat"
            THEN r.returned.calls = names
            ELSE /\ Reverse(r.returned.calls) = names
                 /\ r.returned.closes = Len(names)

-----------------------------------------------------------------------------
(* Function.bind / BoundFunction  (function.py 113-150, 198-290) *)

\* Function.set_code line 104: self._bindings = dict([(a[1], a[0]) for a in args])
bindings(args) ==
    [n \in {args[i][2] : i \in 1..Len(args)} |->
        LET last == CHOOSE i \in 1..Len(args) :
                        /\ args[i][2] = n
                        /\ \A j \in (i+1)..Len(args) : args[j][2] # n
        IN  args[last][1]]

\* Headers of the code blocks handed to Function(code):
\*   void f1() {   and   vec4 foo(float a, vec2 b) {
Headers == { [rtype |-> "void", name |-> "f1", args |-> <<>>],
             [rtype |-> "vec4", name |-> "foo",
              args |-> << <<"float", "a">>, <<"vec2", "b">> >>] }

\* (qualifier, new variable name) values given to bind()
VarSpecs == { <<"uniform", "input_b">>, <<"attribute", "input_c">> }
BoundNames == {"new_func_name"}
\* sets of keyword names a caller passes to bind(); "z" is an argument of no
\* parent
KeywordSets == (SUBSET {"a", "b"}) \cup { {"z"}, {"a", "z"} }

\* bound_args dicts {arg name: (qualifier, new variable name)}
BoundArgs(keys) == [keys -> VarSpecs]

\* The orders in which dict.items() may yield the keys of a dict
ItemOrders(d) ==
    {o \in [1..Cardinality(DOMAIN d) -> DOMAIN d] :
        \A i, j \in 1..Cardinality(DOMAIN d) : o[i] = o[j] => i = j}

\* The variant whose new signature keeps every parent argument.
generate_function_code_all_args(parent, name, bound_arguments, order) ==
    [decls |-> [i \in 1..Len(order) |->
                    <<bound_arguments[order[i]][1],
                      bindings(parent.args)[order[i]],
                      bound_arguments[order[i]][2]>>],
     header |-> [rtype |-> parent.rtype.text, name |-> name, args |-> parent.args],
     call |-> [ret |-> IF ~(parent.rtype.text = "void" /\ parent.rtype.interned)
                       THEN "return " ELSE "",
               name |-> parent.name,
               args |-> [i \in 1..Len(parent.args) |->
                            IF parent.args[i][2] \in DOMAIN bound_arguments
                            THEN bound_arguments[parent.args[i][2]][2]
                            ELSE parent.args[i][2]]]]

\* BoundFunction.generate_function_code (262-290); order is the order in which
\* self._bound_arguments.items() yields the bound arguments.
generate_function_code(parent, name, bound_arguments, order) ==
    LET fn_args == parent.args
        \* arg_defs = [x for x in fn_args if x[1] not in self._bound_arguments]
        arg_defs[k \in 0..Len(fn_args)] ==
            IF k = 0 THEN <<>>
            ELSE IF fn_args[k][2] \notin DOMAIN bound_arguments
                 THEN Append(arg_defs[k-1], fn_args[k])
                 ELSE arg_defs[k-1]
    IN  [decls |-> [i \in 1..Len(order) |->
                        <<bound_arguments[order[i]][1],
                          bindings(parent.args)[order[i]],
                          bound_arguments[order[i]][2]>>],
         header |-> [rtype |-> parent.rtype.text, name |-> name,
                     args |-> arg_defs[Len(fn_args)]],
         \* ret = "return " if self._parent.rtype is not 'void' else ""
         call |-> [ret |-> IF ~(parent.rtype.text = "void" /\ parent.rtype.interned)
                           THEN "return " ELSE "",
                   name |-> parent.name,
                   args |-> [i \in 1..Len(fn_args) |->
                                IF fn_args[i][2] \in DOMAIN bound_arguments
                                THEN bound_arguments[fn_args[i][2]][2]
                                ELSE fn_args[i][2]]]]

\* Function(code): name, args and rtype parsed from the code (96-98)
NewParsedFunction(header) ==
    /\ Len(pool) < MaxPool
    /\ pool' = Append(pool, parse_function_signature(header))
    /\ UNCHANGED <<fdeps, chains, bound, tmpl, tbind, frag, fbind, fvars, setres, cleaned>>

\* Function(code, name=..., args=..., rtype=...): the caller's objects (100-102)
NewExplicitFunction(header, interned) ==
    /\ Len(pool) < MaxPool
    /\ pool' = Append(pool, Signature(header.name, header.args,
                                      Str(header.rtype, interned)))
    /\ UNCHANGED <<fdeps, chains, bound, tmpl, tbind, frag, fbind, fvars, setres, cleaned>>

\* FunctionChain(name): an empty chain, rtype = 'void' (353-354)
NewEmptyChain(name) ==
    /\ Len(pool) < MaxPool
    /\ pool' = Append(pool, Signature(name, <<>>, Lit("void")))
    /\ UNCHANGED <<fdeps, chains, bound, tmpl, tbind, frag, fbind, fvars, setres, cleaned>>

\* BoundFunction.__init__ (243-250) on parent object par
BoundFunction(par, name, bound_arguments, order) ==
    IF DOMAIN bound_arguments \subseteq DOMAIN bindings(par.args)
    THEN LET code == generate_function_code(par, name, bound_arguments, order)
         IN  [status |-> "ok", parent |-> par, name |-> name,
              bound_arguments |-> bound_arguments, code |-> code,
              self |-> parse_function_signature(code.header)]
    ELSE \* self._parent.bindings[bname] raises (268)
         [status |-> "KeyError", parent |-> par, name |-> name,
          bound_arguments |-> bound_arguments]

\* pool[p].bind(name, **kwds) (150)
bind(p, name, kwds, order) ==
    /\ p \in 1..Len(pool)
    /\ bound' = BoundFunction(pool[p], name, kwds, order)
    /\ UNCHANGED <<fdeps, chains, pool, tmpl, tbind, frag, fbind, fvars, setres, cleaned>>

\* bind() of the BoundFunction made last
rebind(name, kwds, order) ==
    /\ bound.status = "ok"
    /\ bound' = BoundFunction(bound.self, name, kwds, order)
    /\ UNCHANGED <<fdeps, chains, pool, tmpl, tbind, frag, fbind, fvars, setres, cleaned>>

PoolInit == pool = <<>> /\ bound = Absent

InitBound == PoolInit /\ DepsIdle /\ ChainsIdle /\ TmplIdle /\ FragIdle /\ VarsIdle /\ CleanIdle

NextBound ==
    \/ \E header \in Headers : NewParsedFunction(header)
    \/ \E header \in Headers, interned \in BOOLEAN : NewExplicitFunction(header, interned)
    \/ NewEmptyChain("my_func_chain")
    \/ \E p \in 1..Len(pool), name \in BoundNames, keys \in KeywordSets :
        \E kwds \in BoundArgs(keys) : \E order \in ItemOrders(kwds) :
            bind(p, name, kwds, order)
    \/ \E name \in BoundNames, keys \in KeywordSets :
        \E kwds \in BoundArgs(keys) : \E order \in ItemOrders(kwds) :
            rebind(name, kwds, order)

SpecBound == InitBound /\ [][NextBound]_vars

\* C4: when the bound arguments are a subset of the parent's argument names,
\* the generated code has (i) one declaration "qualifier type new_name" per
\* bound argument, typed by the parent, (ii) a header with the bound name and
\* the parent's unbound arguments in the parent's order, (iii) a call of the
\* parent with, per parent argument in order, the new variable name if bound
\* and the parameter name if not.
C4_BoundCode ==
    (bound.status # "none" /\ DOMAIN bound.bound_arguments \subseteq
                        {bound.parent.args[i][2] : i \in 1..Len(bound.parent.args)}) =>
        LET par == bound.parent
            ba == bound.bound_arguments
            code == bound.code
            DeclOf(b) == <<ba[b][1],
                           (CHOOSE a \in Range(par.args) : a[2] = b)[1],
                           ba[b][2]>>
        IN  /\ bound.status = "ok"
            /\ Len(code.decls) = Cardinality(DOMAIN ba)
            /\ \A b \in DOMAIN ba :
                    Cardinality({i \in 1..Len(code.decls) : code.decls[i] = DeclOf(b)})
                        = Cardinality({c \in DOMAIN ba : DeclOf(c) = DeclOf(b)})
            /\ code.header.name = bound.name
            /\ code.header.args = SelectSeq(par.args, LAMBDA x : x[2] \notin DOMAIN ba)
            /\ code.call.name = par.name
            /\ Len(code.call.args) = Len(par.args)
            /\ \A i \in 1..Len(par.args) :
                    code.call.args[i] = IF par.args[i][2] \in DOMAIN ba
                                        THEN ba[par.args[i][2]][2]
                                        ELSE par.args[i][2]

\* A two-argument parent with one argument bound and one passed through.
C4_Witness ==
    /\ bound.status = "ok"
    /\ Len(bound.parent.args) = 2
    /\ Cardinality(DOMAIN bound.bound_arguments) = 1
    /\ Len(bound.code.header.args) = 1

\* C5: the generated call has the return prefix if and only if the text of
\* the parent's return type is not "void".
C5_ReturnPrefix ==
    bound.status = "ok" =>
        (bound.code.call.ret = "return " <=> bound.parent.rtype.text # "void")

-----------------------------------------------------------------------------
(* FunctionTemplate  (function.py 399-496) *)

\* Template text as a sequence of pieces: literal text, or a $name placeholder.
L(text) == [ph |-> FALSE, s |-> text]
P(name) == [ph |-> TRUE, s |-> name]

\* Template texts in the style of the class docstring (425-428)
Text0 == << L("vec4 "), P("func_name"), L("() { return vec4(0, 0, 0, 1); }") >>
TextA == << L("vec4 "), P("func_name"), L("() { return vec4("), P("a"), L(", 0, 1); }") >>
TextAB == << L("vec4 "), P("func_name"), L("() { return vec4("), P("a"), L(", "),
             P("b"), L(", "), P("a"), L("); }") >>
TemplateTexts == {Text0, TextA, TextAB}

\* bindings arguments: lists of "type var_name", each given as the text before
\* and the text after its first space (448-449)
BindingLists == { <<>>, << <<"vec2", "a">> >>, << <<"vec2", "a">>, <<"float", "b">> >> }
TemplateDeps == { <<>>, <<"f1">> }

\* Values a caller gives per keyword: the (qualifier, type, name) triple of the
\* bind docstring (471), and the (qualifier, name) pair that
\* FragmentFunction.bind passes (559-561)
TemplateSpecs == { <<"uniform", "vec2", "my_input_uniform">>,
                   <<"varying", "name_a_b_var">> }
TemplateKeys == {"a", "b", "z"}
\* kwds dicts
TemplateKwds == UNION { [keys -> TemplateSpecs] : keys \in SUBSET TemplateKeys }

Placeholders(text) == { text[i].s : i \in {j \in 1..Len(text) : text[j].ph} }

\* string.Template.substitute(**subs); every placeholder is a key of subs
substitute(text, subs) ==
    [i \in 1..Len(text) |-> IF text[i].ph THEN subs[text[i].s] ELSE text[i].s]

\* FunctionTemplate.__init__(template, bindings, deps) (443-457)
FunctionTemplate(text, blist, deps) ==
    LET b == [n \in {blist[i][2] : i \in 1..Len(blist)} |->
                (CHOOSE i \in 1..Len(blist) :
                    /\ blist[i][2] = n
                    /\ \A j \in (i+1)..Len(blist) : blist[j][2] # n) ]
        made == [template |-> text, deps |-> deps, bindings |->
                    [n \in DOMAIN b |-> blist[b[n]][1]]]
    IN  \* the fake replacement of 454-455 needs every placeholder
        IF Placeholders(text) \subseteq (DOMAIN b \cup {"func_name"})
        THEN [status |-> "ok", template |-> made.template, deps |-> made.deps,
              bindings |-> made.bindings, at_construction |-> made]
        ELSE [status |-> "KeyError"]

\* The for loop of bind (481-489) over the first k items of kwds, in the order
\* of kwds.items(): the local var_names, subs and code, and the exception that
\* ended the loop, if one did.
bind_loop(t, name, kwds, order) ==
    LET step[k \in 0..Len(order)] ==
            IF k = 0
            THEN [err |-> "", var_names |-> DOMAIN t.bindings,
                  subs |-> [n \in {"func_name"} |-> name], code |-> <<>>]
            ELSE LET prev == step[k-1]
                     var_name == order[k]
                     var_spec == kwds[var_name]
                 IN  IF prev.err # "" THEN prev
                     ELSE IF var_name \notin prev.var_names
                     THEN \* var_names.remove(var_name) raises
                          [prev EXCEPT !.err = "ValueError"]
                     ELSE [err |-> "",
                           var_names |-> prev.var_names \ {var_name},
                           subs |-> [n \in DOMAIN prev.subs \cup {var_name} |->
                                        IF n = var_name THEN var_spec[2]
                                        ELSE prev.subs[n]],
                           code |-> Append(prev.code,
                                <<var_spec[1], t.bindings[var_name], var_spec[2]>>)]
    IN  step[Len(order)]

\* The variant that does not raise on unsubstituted template variables.
template_bind_no_missing_check(t, name, kwds, order) ==
    LET loop == bind_loop(t, name, kwds, order)
    IN  IF loop.err # ""
        THEN [result |-> [status |-> loop.err, name |-> name, kwds |-> kwds,
                          returned |-> FALSE],
              tmpl |-> t]
        ELSE [result |-> [status |-> "ok", name |-> name, kwds |-> kwds,
                          returned |-> TRUE,
                          code |-> [decls |-> loop.code,
                                    text |-> substitute(t.template,
                                        [n \in Placeholders(t.template) |->
                                            IF n \in DOMAIN loop.subs
                                            THEN loop.subs[n] ELSE n])],
                          deps |-> t.deps],
              tmpl |-> t]

\* FunctionTemplate.bind(name, **kwds) (463-496): the outcome, and the
\* template object as the call leaves it.
template_bind(t, name, kwds, order) ==
    LET loop == bind_loop(t, name, kwds, order)
    IN  IF loop.err # ""
        THEN [result |-> [status |-> loop.err, name |-> name, kwds |-> kwds,
                          returned |-> FALSE],
              tmpl |-> t]
        ELSE IF loop.var_names # {}
        THEN \* raise Exception('Unsubstituted template variables ...')
             [result |-> [status |-> "Exception", name |-> name, kwds |-> kwds,
                          returned |-> FALSE],
              tmpl |-> t]
        ELSE \* Function(code + template.substitute(**subs), deps=self.deps[:])
             [result |-> [status |-> "ok", name |-> name, kwds |-> kwds,
                          returned |-> TRUE,
                          code |-> [decls |-> loop.code,
                                    text |-> substitute(t.template, loop.subs)],
                          deps |-> t.deps],
              tmpl |-> t]

NewTemplate(text, blist, deps) ==
    /\ tmpl.status # "ok"
    /\ tmpl' = FunctionTemplate(text, blist, deps)
    /\ UNCHANGED <<fdeps, chains, pool, bound, tbind, frag, fbind, fvars, setres, cleaned>>

TemplateBind(name, kwds, order) ==
    /\ tmpl.status = "ok"
    /\ LET r == template_bind(tmpl, name, kwds, order)
       IN  tbind' = r.result /\ tmpl' = r.tmpl
    /\ UNCHANGED <<fdeps, chains, pool, bound, frag, fbind, fvars, setres, cleaned>>

TmplInit == tmpl = Absent /\ tbind = Absent

InitTmpl == TmplInit /\ DepsIdle /\ ChainsIdle /\ PoolIdle /\ FragIdle /\ VarsIdle /\ CleanIdle

NextTmpl ==
    \/ \E text \in TemplateTexts, blist \in BindingLists, deps \in TemplateDeps :
            NewTemplate(text, blist, deps)
    \/ \E name \in {"my_function", "other_function"}, kwds \in TemplateKwds :
        \E order \in ItemOrders(kwds) : TemplateBind(name, kwds, order)

SpecTmpl == InitTmpl /\ [][NextTmpl]_vars

\* C8: bind succeeds exactly when the supplied keywords are the declared
\* bindings; a failed bind returns no Function; after any binds the template's
\* bindings, deps and text are those it was constructed with.
C8_BindKeywords ==
    /\ tbind.status # "none" =>
            /\ tbind.status = "ok" <=> DOMAIN tbind.kwds = DOMAIN tmpl.bindings
            /\ tbind.returned <=> tbind.status = "ok"
    /\ tmpl.status = "ok" =>
            /\ tmpl.bindings = tmpl.at_construction.bindings
            /\ tmpl.deps = tmpl.at_construction.deps
            /\ tmpl.template = tmpl.at_construction.template

\* A bind that left a declared binding out, on a template that declares two.
C8_Witness ==
    /\ tmpl.status = "ok" /\ Cardinality(DOMAIN tmpl.bindings) = 2
    /\ tbind.status = "Exception"
    /\ DOMAIN tbind.kwds # {} /\ DOMAIN tbind.kwds \subseteq DOMAIN tmpl.bindings

\* C9: after a successful bind with (qualifier, type, variable_name) triples,
\* the code declares variable_name with the qualifier once per binding, every
\* $b is replaced by variable_name, and $func_name by the requested name.
C9_TripleSubstitution ==
    (tbind.status = "ok" /\ \A b \in DOMAIN tbind.kwds : Len(tbind.kwds[b]) = 3) =>
        /\ \A b \in DOMAIN tbind.kwds :
            /\ \E i \in 1..Len(tbind.code.decls) :
                    /\ tbind.code.decls[i][1] = tbind.kwds[b][1]
                    /\ tbind.code.decls[i][3] = tbind.kwds[b][3]
            /\ \A i \in 1..Len(tmpl.template) :
                    (tmpl.template[i].ph /\ tmpl.template[i].s = b) =>
                        tbind.code.text[i] = tbind.kwds[b][3]
        /\ Len(tbind.code.decls) = Cardinality(DOMAIN tbind.kwds)
        /\ \A i \in 1..Len(tmpl.template) :
                (tmpl.template[i].ph /\ tmpl.template[i].s = "func_name") =>
                    tbind.code.text[i] = tbind.name

-----------------------------------------------------------------------------
(* FragmentFunction  (function.py 500-590) *)

\* fragment_func / vertex_func: a Function or a FunctionTemplate; both have
\* .bindings and .bind
FunctionSide(sig) == [kind |-> "function", bindings |-> bindings(sig.args), obj |-> sig]
TemplateSide(t) == [kind |-> "template", bindings |-> t.bindings, obj |-> t]

FragFuncs ==
    { FunctionSide(Signature("frag", << <<"vec2", "a">>, <<"vec4", "c">> >>, Fresh("vec4"))),
      FunctionSide(Signature("frag", << <<"vec2", "c">> >>, Fresh("vec4"))),
      TemplateSide(FunctionTemplate(<< L("vec4 "), P("func_name"), L("() { return "),
                                       P("c"), L("; }") >>,
                                    << <<"vec4", "c">> >>, <<>>)) }

VertFuncs ==
    { FunctionSide(Signature("vert", << <<"vec2", "a">>, <<"vec4", "b">> >>, Fresh("void"))),
      FunctionSide(Signature("vert", << <<"vec4", "b">> >>, Fresh("void"))),
      TemplateSide(FunctionTemplate(<< L("void "), P("func_name"), L("() { "),
                                       P("a"), L(" = "), P("b"), L(".xy; }") >>,
                                    << <<"vec2", "a">>, <<"vec4", "b">> >>, <<>>)) }

\* (vertex variable, fragment variable) pairs for link_vars
LinkPairs == { <<"b", "c">>, <<"a", "a">>, <<"z", "c">>, <<"b", "z">> }

\* Program variable names are kept as their parts: "%s_%s_%s_var" (558) is
\* <<name, vname, fname, "var">>; a caller's variable for keyword k is <<"u", k>>
FragKeys == {"a", "b", "c", "z"}
FragKwds == UNION { [keys -> {"uniform"}] : keys \in SUBSET FragKeys }
CallerVar(kwds, k) == <<kwds[k], <<"u", k>>>>

\* dict.get(key, None)
Get(d, key) == IF key \in DOMAIN d THEN d[key] ELSE None

\* The variant that does not compare the two types.
FragmentFunction_no_type_check(fragment_func, vertex_func, link_vars) ==
    LET check[k \in 0..Len(link_vars)] ==
            IF k = 0 THEN "ok"
            ELSE IF check[k-1] # "ok" THEN check[k-1]
            ELSE IF Get(vertex_func.bindings, link_vars[k][1]) = None THEN "NameError"
            ELSE IF Get(fragment_func.bindings, link_vars[k][2]) = None THEN "NameError"
            ELSE "ok"
    IN  [status |-> check[Len(link_vars)], frag_func |-> fragment_func,
         vert_func |-> vertex_func, link_vars |-> link_vars]

\* FragmentFunction.__init__ (519-540): the object, or the exception raised
FragmentFunction(fragment_func, vertex_func, link_vars) ==
    LET check[k \in 0..Len(link_vars)] ==
            IF k = 0 THEN "ok"
            ELSE IF check[k-1] # "ok" THEN check[k-1]
            ELSE LET vtype == Get(vertex_func.bindings, link_vars[k][1])
                     ftype == Get(fragment_func.bindings, link_vars[k][2])
                 IN  IF vtype = None THEN "NameError"
                     ELSE IF ftype = None THEN "NameError"
                     ELSE IF vtype # ftype THEN "TypeError"
                     ELSE "ok"
    IN  [status |-> check[Len(link_vars)], frag_func |-> fragment_func,
         vert_func |-> vertex_func, link_vars |-> link_vars]

\* side.bind(name, **vars_): whether it returns a function or raises
side_bind(side, name, vars_) ==
    LET order == CHOOSE o \in ItemOrders(vars_) : TRUE
    IN  IF side.kind = "function"
        THEN BoundFunction(side.obj, name, vars_, order).status
        ELSE template_bind(side.obj, name, vars_, order).result.status

\* The varyings of lines 555-561: vert_vars and frag_vars after the first loop
link_vars_dict(ff, name, side) ==
    LET idx == IF side = "vert" THEN 1 ELSE 2
        keys == {ff.link_vars[i][idx] : i \in 1..Len(ff.link_vars)}
    IN  [k \in keys |->
            LET last == CHOOSE i \in 1..Len(ff.link_vars) :
                            /\ ff.link_vars[i][idx] = k
                            /\ \A j \in (i+1)..Len(ff.link_vars) : ff.link_vars[j][idx] # k
            IN  <<"varying", <<name, ff.link_vars[last][1], ff.link_vars[last][2], "var">> >>]

\* FragmentFunction.bind(name, **kwds) (542-590)
fragment_bind(ff, name, kwds) ==
    LET frag0 == link_vars_dict(ff, name, "frag")
        vert0 == link_vars_dict(ff, name, "vert")
        \* the for loop of 566-573
        to_frag == {k \in DOMAIN kwds : k \notin DOMAIN frag0 /\ k \in DOMAIN ff.frag_func.bindings}
        to_vert == {k \in DOMAIN kwds \ to_frag : k \in DOMAIN ff.vert_func.bindings}
        frag_vars == [k \in DOMAIN frag0 \cup to_frag |->
                        IF k \in to_frag THEN CallerVar(kwds, k) ELSE frag0[k]]
        vert_vars == [k \in DOMAIN vert0 \cup to_vert |->
                        IF k \in to_vert THEN CallerVar(kwds, k) ELSE vert0[k]]
        failed == [name |-> name, kwds |-> kwds, returned |-> FALSE]
    IN  IF DOMAIN kwds # to_frag \cup to_vert
        THEN failed @@ [status |-> "KeyError"]
        ELSE IF side_bind(ff.frag_func, name, frag_vars) # "ok"
        THEN failed @@ [status |-> side_bind(ff.frag_func, name, frag_vars)]
        ELSE IF side_bind(ff.vert_func, <<name, "support">>, vert_vars) # "ok"
        THEN failed @@ [status |-> side_bind(ff.vert_func, <<name, "support">>, vert_vars)]
        ELSE [status |-> "ok", name |-> name, kwds |-> kwds, returned |-> TRUE,
              frag_vars |-> frag_vars, vert_vars |-> vert_vars]

NewFragmentFunction(fragment_func, vertex_func, link_vars) ==
    /\ frag.status # "ok"
    /\ frag' = FragmentFunction(fragment_func, vertex_func, link_vars)
    /\ UNCHANGED <<fdeps, chains, pool, bound, tmpl, tbind, fbind, fvars, setres, cleaned>>

FragmentBind(name, kwds) ==
    /\ frag.status = "ok"
    /\ fbind' = fragment_bind(frag, name, kwds)
    /\ UNCHANGED <<fdeps, chains, pool, bound, tmpl, tbind, frag, fvars, setres, cleaned>>

FragInit == frag = Absent /\ fbind = Absent

InitFrag == FragInit /\ DepsIdle /\ ChainsIdle /\ PoolIdle /\ TmplIdle /\ VarsIdle /\ CleanIdle

NextFrag ==
    \/ \E fragment_func \in FragFuncs, vertex_func \in VertFuncs,
          link_vars \in SeqsUpTo(LinkPairs, MaxLinks) :
            NewFragmentFunction(fragment_func, vertex_func, link_vars)
    \/ \E name \in {"name"}, kwds \in FragKwds : FragmentBind(name, kwds)

SpecFrag == InitFrag /\ [][NextFrag]_vars

\* C6: construction succeeds exactly when every (vname, fname) of link_vars
\* names a vertex binding and a fragment binding of equal type; otherwise it
\* fails at construction, so that no bind has run and nothing was bound.
C6_ConstructionValidates ==
    frag.status # "none" =>
        /\ frag.status = "ok" <=>
                \A i \in 1..Len(frag.link_vars) :
                    /\ frag.link_vars[i][1] \in DOMAIN frag.vert_func.bindings
                    /\ frag.link_vars[i][2] \in DOMAIN frag.frag_func.bindings
                    /\ frag.vert_func.bindings[frag.link_vars[i][1]]
                            = frag.frag_func.bindings[frag.link_vars[i][2]]
        /\ frag.status # "ok" => fbind.status = "none"

\* A construction refused for a type mismatch of a pair present on both sides.
C6_Witness ==
    /\ frag.status = "TypeError"
    /\ \E i \in 1..Len(frag.link_vars) :
            /\ frag.link_vars[i][1] \in DOMAIN frag.vert_func.bindings
            /\ frag.link_vars[i][2] \in DOMAIN frag.frag_func.bindings

\* C7: bind hands every keyword to exactly the one side that declares it; a
\* keyword declared by neither side, or by both, makes bind fail.
C7_KeywordRouting ==
    fbind.status # "none" =>
        \A k \in DOMAIN fbind.kwds :
            LET inFrag == k \in DOMAIN frag.frag_func.bindings
                inVert == k \in DOMAIN frag.vert_func.bindings
            IN  /\ (inFrag <=> inVert) => fbind.status # "ok"
                /\ (fbind.status = "ok" /\ inFrag /\ ~inVert) =>
                        /\ fbind.frag_vars[k] = CallerVar(fbind.kwds, k)
                        /\ k \notin DOMAIN fbind.vert_vars
                /\ (fbind.status = "ok" /\ inVert /\ ~inFrag) =>
                        /\ fbind.vert_vars[k] = CallerVar(fbind.kwds, k)
                        /\ k \notin DOMAIN fbind.frag_vars

\* C11: after a successful bind, whatever the keywords, every linked pair
\* (vname, fname) is bound on both sides to the one varying
\* name_vname_fname_var: no caller keyword has replaced either side.
C11_LinkedVarying ==
    fbind.status = "ok" =>
        \A i \in 1..Len(frag.link_vars) :
            LET vname == frag.link_vars[i][1]
                fname == frag.link_vars[i][2]
                var == <<"varying", <<fbind.name, vname, fname, "var">> >>
            IN  /\ vname \in DOMAIN fbind.vert_vars /\ fbind.vert_vars[vname] = var
                /\ fname \in DOMAIN fbind.frag_vars /\ fbind.frag_vars[fname] = var

-----------------------------------------------------------------------------
(* Function.__setitem__  (function.py 152-162) *)

\* self.variables: {name: (qualifier, type)}, given to __init__ or found in
\* the code by parsing.find_program_variables (106-109)
VariableDicts ==
    { <<>>,
      [n \in {"u_color"} |-> <<"uniform", "vec4">>],
      [n \in {"u_color", "a_pos"} |->
            IF n = "u_color" THEN <<"uniform", "vec4">> ELSE <<"attribute", "vec2">>] }

SetNames == {"u_color", "a_pos", "z"}
SetValues == {1, 2}

\* Function.__init__: self._program_values = {} (49)
NewVarFunction(variables) ==
    /\ Len(fvars) < MaxVarFuncs
    /\ fvars' = Append(fvars, [variables |-> variables, program_values |-> <<>>])
    /\ UNCHANGED <<fdeps, chains, pool, bound, tmpl, tbind, frag, fbind, setres, cleaned>>

\* The variant without the check of line 159.
setitem_unchecked(f, var, value) ==
    [status |-> "ok",
     program_values |-> [n \in DOMAIN f.program_values \cup {var} |->
                            IF n = var THEN value ELSE f.program_values[n]]]

\* Function.__setitem__(var, value): the exception or "ok", and
\* self._program_values afterwards
setitem(f, var, value) ==
    IF var \notin DOMAIN f.variables
    THEN [status |-> "NameError", program_values |-> f.program_values]
    ELSE [status |-> "ok",
          program_values |-> [n \in DOMAIN f.program_values \cup {var} |->
                                IF n = var THEN value ELSE f.program_values[n]]]

SetItem(i, var, value) ==
    /\ i \in 1..Len(fvars)
    /\ LET r == setitem(fvars[i], var, value)
       IN  /\ fvars' = [fvars EXCEPT ![i].program_values = r.program_values]
           /\ setres' = [status |-> r.status, fn |-> i, var |-> var, value |-> value,
                         before |-> fvars[i].program_values]
    /\ UNCHANGED <<fdeps, chains, pool, bound, tmpl, tbind, frag, fbind, cleaned>>

VarsInit == fvars = <<>> /\ setres = Absent

InitVars == VarsInit /\ DepsIdle /\ ChainsIdle /\ PoolIdle /\ TmplIdle /\ FragIdle /\ CleanIdle

NextVars ==
    \/ \E variables \in VariableDicts : NewVarFunction(variables)
    \/ \E i \in 1..Len(fvars), var \in SetNames, value \in SetValues : SetItem(i, var, value)

SpecVars == InitVars /\ [][NextVars]_vars

-----------------------------------------------------------------------------
(* Function.clean_code  (function.py 179-194) *)

\* A code block is the list code.split("\n").  A line is its leading spaces
\* (indent) and the rest, which starts with a non-blank character or is empty:
\* a line with text = "" is empty or holds spaces only.
Line(indent, text) == [indent |-> indent, text |-> text]
Lines == {Line(i, t) : i \in 0..MaxIndent, t \in {"", "a"}}
CodeBlocks == UNION {[1..n -> Lines] : n \in 1..MaxLines}

\* min_indent = 100 (182)
MinIndentStart == 100

\* numbers of spaces to add: small ones and one beyond MinIndentStart
Shifts == (0..MaxIndent) \cup {MinIndentStart + 1}

\* line.strip() == ""
IsBlank(line) == line.text = ""

\* line[n:]; n never exceeds the indent of a non-blank line here
Slice(line, n) == IF n >= line.indent THEN [line EXCEPT !.indent = 0]
                  ELSE [line EXCEPT !.indent = @ - n]

\* Function.clean_code(code): the lines of the returned text, or the
\* IndexError of lines[0] / lines[-1] when every line is blank
clean_code(code) ==
    IF \A i \in 1..Len(code) : IsBlank(code[i])
    THEN [status |-> "IndexError"]
    ELSE LET first == CHOOSE i \in 1..Len(code) :
                        ~IsBlank(code[i]) /\ \A j \in 1..(i-1) : IsBlank(code[j])
             last == CHOOSE i \in 1..Len(code) :
                        ~IsBlank(code[i]) /\ \A j \in (i+1)..Len(code) : IsBlank(code[j])
             lines == SubSeq(code, first, last)
             min_indent[k \in 0..Len(lines)] ==
                IF k = 0 THEN MinIndentStart
                ELSE IF ~IsBlank(lines[k]) /\ lines[k].indent < min_indent[k-1]
                     THEN lines[k].indent
                     ELSE min_indent[k-1]
             m == min_indent[Len(lines)]
         IN  [status |-> "ok",
              lines |-> IF m > 0 THEN [i \in 1..Len(lines) |-> Slice(lines[i], m)]
                        ELSE lines]

\* k more leading spaces on every non-blank line of x
Reindented(x, k) ==
    [i \in 1..Len(x) |-> IF IsBlank(x[i]) THEN x[i] ELSE [x[i] EXCEPT !.indent = @ + k]]

\* the same block written k spaces further in
Reindent ==
    /\ cleaned.status = "input"
    /\ cleaned' = [cleaned EXCEPT !.status = "reindented",
                                  !.y = Reindented(cleaned.x, cleaned.k)]
    /\ UNCHANGED <<fdeps, chains, pool, bound, tmpl, tbind, frag, fbind, fvars, setres>>

\* Function.clean_code on both blocks
CleanCode ==
    /\ cleaned.status = "reindented"
    /\ cleaned' = [cleaned EXCEPT !.status = "cleaned",
                                  !.clean_x = clean_code(cleaned.x),
                                  !.clean_y = clean_code(cleaned.y)]
    /\ UNCHANGED <<fdeps, chains, pool, bound, tmpl, tbind, frag, fbind, fvars, setres>>

CleanInit ==
    cleaned \in {[status |-> "input", x |-> x, k |-> k, y |-> <<>>,
                  clean_x |-> Absent, clean_y |-> Absent] :
                    x \in CodeBlocks, k \in Shifts}

InitClean == CleanInit /\ DepsIdle /\ ChainsIdle /\ PoolIdle /\ TmplIdle /\ FragIdle /\ VarsIdle

NextClean == Reindent \/ CleanCode

SpecClean == InitClean /\ [][NextClean]_vars

\* C13: for a block x with a non-blank line and every k >= 0, clean_code of x
\* with k spaces added to every non-blank line (blank and spaces-only lines
\* left alone) is clean_code of x.
C13_ReindentInvariant ==
    (cleaned.status = "cleaned" /\ \E i \in 1..Len(cleaned.x) : ~IsBlank(cleaned.x[i])) =>
        /\ cleaned.clean_x.status = "ok"
        /\ cleaned.clean_y = cleaned.clean_x

=============================================================================
